---- MODULE Spec2Model ----
(***************************************************************************)
(* drift-linalg: Vec3 (plain vector and its 24-byte little-endian codec)   *)
(* and Vec3Accumulator (three Neumaier-compensated axis accumulators).     *)
(*                                                                         *)
(* f64 values are modelled bit-exactly as IEEE-754 binary64: a value is    *)
(* the record of its bit fields (sign, biased exponent, and the 52-bit    *)
(* fraction in two halves of 26 bits), and +, -, * are computed on the     *)
(* significands with guard, round and sticky bits and then rounded to      *)
(* nearest, ties to even, as the hardware does.  Significands wider than   *)
(* TLC's integers are kept as a high and a low part.  An arithmetic NaN    *)
(* is the one quiet NaN; decoded NaNs keep their bits.                     *)
(***************************************************************************)
EXTENDS Integers, Sequences, FiniteSets, TLC

(***************************************************************************)
(* f64: IEEE-754 binary64.  A value is [sign, exp, hi, lo]: the sign bit,  *)
(* the 11-bit biased exponent and the 52-bit fraction hi * 2^26 + lo       *)
(* (hi, lo < 2^26; TLC's integers have 32 bits).                           *)
(***************************************************************************)
ExpMax == 2047

ExpBias == 1023

HalfBits == 26

Hidden == 2^HalfBits

F64(sign, exp, hi, lo) == [sign |-> sign, exp |-> exp, hi |-> hi, lo |-> lo]

IsNaN(x) == x.exp = ExpMax /\ (x.hi # 0 \/ x.lo # 0)

IsInf(x) == x.exp = ExpMax /\ x.hi = 0 /\ x.lo = 0

IsZero(x) == x.exp = 0 /\ x.hi = 0 /\ x.lo = 0

IsFinite(x) == x.exp < ExpMax

\* The NaN an invalid operation produces (its sign and payload are not
\* specified by Rust; one quiet NaN stands for all of them).
QNaN == F64(0, ExpMax, 2^(HalfBits - 1), 0)

Inf(sign) == F64(sign, ExpMax, 0, 0)

Zero(sign) == F64(sign, 0, 0, 0)

(***************************************************************************)
(* Significands are computed on 56 bits, the 53 of the format and three    *)
(* below them (guard, round, sticky), held as h * 2^29 + l with l < 2^29.  *)
(* A finite value is (-1)^sign * Sig(x) * 2^(EffExp(x) - 1078).            *)
(***************************************************************************)
LowBits == 29

Wide(h, l) == [h |-> h, l |-> l]

EffExp(x) == IF x.exp = 0 THEN 1 ELSE x.exp

Sig(x) == Wide((IF x.exp = 0 THEN 0 ELSE Hidden) + x.hi, x.lo * 8)

\* l with its lowest bit set when bits were lost below it.
Jam(l, lost) == IF lost /\ (l % 2) = 0 THEN l + 1 ELSE l

\* floor(w / 2^d), the lowest bit set when the division is inexact.
ShiftRightJam(w, d) ==
  IF d = 0 THEN w
  ELSE IF d < LowBits
  THEN Wide(w.h \div (2^d),
            Jam((w.l \div (2^d)) + ((w.h % (2^d)) * (2^(LowBits - d))), (w.l % (2^d)) # 0))
  ELSE IF d < 2 * LowBits
  THEN Wide(0, Jam(w.h \div (2^(d - LowBits)),
                   (w.h % (2^(d - LowBits))) # 0 \/ w.l # 0))
  ELSE Wide(0, IF w.h # 0 \/ w.l # 0 THEN 1 ELSE 0)

\* w * 2^n, for w * 2^n < 2^56.
ShiftLeft(w, n) ==
  IF n = 0 THEN w
  ELSE IF n < LowBits
  THEN Wide((w.h * (2^n)) + (w.l \div (2^(LowBits - n))),
            (w.l % (2^(LowBits - n))) * (2^n))
  ELSE Wide(w.l * (2^(n - LowBits)), 0)

RECURSIVE SmallBitLen(_)
SmallBitLen(k) == IF k = 0 THEN 0 ELSE 1 + SmallBitLen(k \div 2)

BitLen(w) == IF w.h > 0 THEN LowBits + SmallBitLen(w.h) ELSE SmallBitLen(w.l)

MaxOf(a, b) == IF a >= b THEN a ELSE b

MinOf(a, b) == IF a <= b THEN a ELSE b

\* The fields of a finite result from its 53-bit significand h * 2^26 + lo
\* (h <= 2^27, and lo = 0 when h = 2^27) at biased exponent e >= 1.
Pack(sign, e, h, lo) ==
  IF h < Hidden THEN F64(sign, 0, h, lo)
  ELSE IF h = 2 * Hidden
  THEN (IF e + 1 >= ExpMax THEN Inf(sign) ELSE F64(sign, e + 1, 0, lo))
  ELSE IF e >= ExpMax THEN Inf(sign)
  ELSE F64(sign, e, h - Hidden, lo)

\* Round to nearest, ties to even, on the three low bits of l.
RoundUp(l) == (l % 8) > 4 \/ ((l % 8) = 4 /\ ((l \div 8) % 2) = 1)

\* The rounding increment carried from lo (which may have reached 2^26) into h.
Carry(sign, e, h, lo) ==
  Pack(sign, e, IF lo = Hidden THEN h + 1 ELSE h, IF lo = Hidden THEN 0 ELSE lo)

\* (-1)^sign * w * 2^(e - 1078), for e >= 1 and w < 2^56 with its top bit
\* set unless e = 1: rounded and packed.
RoundPack(sign, e, w) ==
  Carry(sign, e, w.h, (w.l \div 8) + (IF RoundUp(w.l) THEN 1 ELSE 0))

\* A significand at an exponent below 1 is shifted down to exponent 1.
Denorm(sign, e, w) ==
  RoundPack(sign, MaxOf(e, 1), ShiftRightJam(w, MaxOf(1 - e, 0)))

\* The shift that normalises w < 2^57 at exponent e: -1 (right by one bit),
\* or the left shift that brings the top bit to 2^55 without taking the
\* exponent below 1.
NormShift(e, w) ==
  IF w.h >= 2 * Hidden THEN -1
  ELSE IF w.h >= Hidden \/ e <= 1 THEN 0
  ELSE MinOf(56 - BitLen(w), e - 1)

Shift(w, n) == IF n < 0 THEN ShiftRightJam(w, 0 - n) ELSE ShiftLeft(w, n)

Normalize(sign, e, w, n) == Denorm(sign, e - n, Shift(w, n))

\* (-1)^sign * w * 2^(e - 1078) for any integer e and any w # 0 below 2^57:
\* normalised, rounded and packed.
NormRoundPack(sign, e, w) == Normalize(sign, e, w, NormShift(e, w))

WideAdd(a, b) ==
  Wide(a.h + b.h + ((a.l + b.l) \div (2^LowBits)), (a.l + b.l) % (2^LowBits))

\* a - b for a >= b.
WideSub(a, b) ==
  IF a.l >= b.l THEN Wide(a.h - b.h, a.l - b.l)
                ELSE Wide(a.h - b.h - 1, (a.l + (2^LowBits)) - b.l)

\* -1, 0, 1 comparing the magnitudes of two non-NaN values.
MagCmp(x, y) ==
  IF x.exp # y.exp THEN (IF x.exp < y.exp THEN -1 ELSE 1)
  ELSE IF x.hi # y.hi THEN (IF x.hi < y.hi THEN -1 ELSE 1)
  ELSE IF x.lo # y.lo THEN (IF x.lo < y.lo THEN -1 ELSE 1)
  ELSE 0

\* The sum of two aligned significands wx >= wy with signs sx, sy.
AddAligned(sx, sy, e, wx, wy) ==
  IF sx # sy /\ wx = wy THEN Zero(0)
  ELSE NormRoundPack(sx, e, IF sx = sy THEN WideAdd(wx, wy) ELSE WideSub(wx, wy))

\* x + y for finite non-zero x, y with |x| >= |y|.
AddOrdered(x, y) ==
  AddAligned(x.sign, y.sign, EffExp(x), Sig(x),
             ShiftRightJam(Sig(y), EffExp(x) - EffExp(y)))

\* x + y
F64Add(x, y) ==
  IF IsNaN(x) \/ IsNaN(y) THEN QNaN
  ELSE IF IsInf(x) THEN (IF IsInf(y) /\ x.sign # y.sign THEN QNaN ELSE x)
  ELSE IF IsInf(y) THEN y
  ELSE IF IsZero(x) /\ IsZero(y) THEN Zero(IF x.sign = 1 /\ y.sign = 1 THEN 1 ELSE 0)
  ELSE IF IsZero(x) THEN y
  ELSE IF IsZero(y) THEN x
  ELSE AddOrdered(IF MagCmp(x, y) >= 0 THEN x ELSE y,
                  IF MagCmp(x, y) >= 0 THEN y ELSE x)

\* -x
F64Neg(x) == F64(1 - x.sign, x.exp, x.hi, x.lo)

\* x - y
F64Sub(x, y) == IF IsNaN(y) THEN QNaN ELSE F64Add(x, F64Neg(y))

\* A finite non-zero x with its significand's top bit at 2^55, and the
\* exponent (below 1 for a subnormal) that goes with it.
NormSig(x) == IF x.exp # 0 THEN Sig(x) ELSE ShiftLeft(Sig(x), 56 - BitLen(Sig(x)))

NormExp(x) == IF x.exp # 0 THEN x.exp ELSE 1 - (56 - BitLen(Sig(x)))

\* The four 13-bit limbs of a normalised significand's 53 bits, lowest first
\* (the last has 14 bits).
Limbs(w) ==
  <<(w.l \div 8) % 8192, (w.l \div 8) \div 8192, w.h % 8192, w.h \div 8192>>

\* The columns of limb products of a * b, carries not yet propagated.
Columns(a, b) ==
  <<a[1] * b[1],
    (a[1] * b[2]) + (a[2] * b[1]),
    (a[1] * b[3]) + (a[2] * b[2]) + (a[3] * b[1]),
    (a[1] * b[4]) + (a[2] * b[3]) + (a[3] * b[2]) + (a[4] * b[1]),
    (a[2] * b[4]) + (a[3] * b[3]) + (a[4] * b[2]),
    (a[3] * b[4]) + (a[4] * b[3]),
    a[4] * b[4]>>

\* The limbs of the number the columns spell, from column i on.
RECURSIVE Propagate(_, _, _)
Propagate(cols, i, carry) ==
  IF i > Len(cols) THEN <<carry>>
  ELSE <<(cols[i] + carry) % 8192>>
       \o Propagate(cols, i + 1, (cols[i] + carry) \div 8192)

\* Limbs i and i + 1 as one 26-bit number.
Pair(p, i) == p[i] + (p[i + 1] * 8192)

\* The top 56 bits of the 106-bit product p (its limbs), that is p / 2^49,
\* the lost bits jammed.
ProductSig(p) ==
  Wide(Pair(p, 7),
       Jam((Pair(p, 5) * 8) + (Pair(p, 3) \div (2^23)),
           (Pair(p, 3) % (2^23)) # 0 \/ Pair(p, 1) # 0))

\* x * y for finite non-zero x, y: the exact product, rounded once.
MulFinite(sign, x, y) ==
  NormRoundPack(sign, NormExp(x) + NormExp(y) - ExpBias,
                ProductSig(Propagate(Columns(Limbs(NormSig(x)), Limbs(NormSig(y))), 1, 0)))

\* x * y
F64Mul(x, y) ==
  LET s == (x.sign + y.sign) % 2
  IN  IF IsNaN(x) \/ IsNaN(y) THEN QNaN
      ELSE IF IsInf(x) \/ IsInf(y)
           THEN (IF IsZero(x) \/ IsZero(y) THEN QNaN ELSE Inf(s))
      ELSE IF IsZero(x) \/ IsZero(y) THEN Zero(s)
      ELSE MulFinite(s, x, y)

\* x.abs()
F64Abs(x) == F64(0, x.exp, x.hi, x.lo)

\* x < y
F64Lt(x, y) ==
  IF IsNaN(x) \/ IsNaN(y) THEN FALSE
  ELSE IF IsZero(x) /\ IsZero(y) THEN FALSE
  ELSE IF x.sign # y.sign THEN x.sign = 1
  ELSE IF x.sign = 0 THEN MagCmp(x, y) < 0
  ELSE MagCmp(x, y) > 0

\* x >= y
F64Ge(x, y) == ~IsNaN(x) /\ ~IsNaN(y) /\ ~F64Lt(x, y)

\* i as f64, for an integer |i| < 2^29 (exact).
F64FromInt(i) ==
  IF i = 0 THEN Zero(0)
  ELSE IF i < 0 THEN NormRoundPack(1, ExpBias + 55, Wide(0, 0 - i))
  ELSE NormRoundPack(0, ExpBias + 55, Wide(0, i))

\* x.to_bits() as four 16-bit words, lowest first:
\* sign * 2^63 + exp * 2^52 + hi * 2^26 + lo.
ToBits(x) ==
  <<x.lo % 65536,
    (x.lo \div 65536) + ((x.hi % 64) * 1024),
    (x.hi \div 64) % 65536,
    (x.hi \div (2^22)) + (x.exp * 16) + (x.sign * 32768)>>

\* f64::from_bits
FromBits(w) ==
  F64(w[4] \div 32768,
      (w[4] \div 16) % 2048,
      ((w[4] % 16) * (2^22)) + (w[3] * 64) + (w[2] \div 1024),
      ((w[2] % 1024) * 65536) + w[1])

\* f64::to_le_bytes: the 8 bytes of the bit pattern, least significant first.
U64_to_le_bytes(w) ==
  <<w[1] % 256, w[1] \div 256, w[2] % 256, w[2] \div 256,
    w[3] % 256, w[3] \div 256, w[4] % 256, w[4] \div 256>>

f64_to_le_bytes(x) == U64_to_le_bytes(ToBits(x))

\* f64::from_le_bytes: the value whose bit pattern the 8 bytes spell.
U64_from_le_bytes(b) ==
  <<b[1] + (256 * b[2]), b[3] + (256 * b[4]), b[5] + (256 * b[6]), b[7] + (256 * b[8])>>

f64_from_le_bytes(b) == FromBits(U64_from_le_bytes(b))

(***************************************************************************)
(* The f64 literals of the source, by their bit fields                     *)
(* (sign, biased exponent, fraction hi * 2^26 + lo).                       *)
(***************************************************************************)
F_0 == Zero(0)

F_neg0 == Zero(1)

F_1 == F64FromInt(1)

F_3 == F64FromInt(3)

\* 0.5 = 0x3FE0000000000000
F_half == F64(0, 1022, 0, 0)

\* 1.5, -2.25, 3.125
F_1_5 == F64(0, 1023, 33554432, 0)

F_neg2_25 == F64(1, 1024, 8388608, 0)

F_3_125 == F64(0, 1024, 37748736, 0)

\* 1e16 = 10^8 * 10^8 and 1e15 = 10^7 * 10^8 are exact doubles.
F_1e16 == F64Mul(F64FromInt(100000000), F64FromInt(100000000))

F_1e15 == F64Mul(F64FromInt(10000000), F64FromInt(100000000))

\* 0.1 = 0x3FB999999999999A
F_0_1 == F64(0, 1019, 40265318, 26843546)

\* 1.0 / 60.0 = 0x3F91111111111111
F_1_60 == F64(0, 1017, 4473924, 17895697)

\* 1e-5 = 0x3EE4F8B588E368F1
F_1em5 == F64(0, 1006, 20852066, 14903537)

\* 1e-10 = 0x3DDB7CDFD9D7BDBB
F_1em10 == F64(0, 989, 48183286, 30916027)

\* 1e-15 = 0x3CD203AF9EE75616
F_1em15 == F64(0, 973, 8448999, 48715286)

\* The smallest subnormal.
F_subnormal == F64(0, 0, 0, 1)

(***************************************************************************)
(* Vec3                                                                    *)
(***************************************************************************)
Axes == {"x", "y", "z"}

Vec3_new(x, y, z) == [x |-> x, y |-> y, z |-> z]

Vec3_ZERO == [x |-> F_0, y |-> F_0, z |-> F_0]

\* Variant: z copied to buf[8..16] and y to buf[16..24].
Vec3_to_le_bytes_zy(self) ==
  f64_to_le_bytes(self.x) \o f64_to_le_bytes(self.z) \o f64_to_le_bytes(self.y)

Vec3_to_le_bytes(self) ==
  f64_to_le_bytes(self.x) \o f64_to_le_bytes(self.y) \o f64_to_le_bytes(self.z)

\* bytes[a..b].try_into(): a slice becomes a [u8; 8] only if it has 8 bytes.
TryInto8(slice) == IF Len(slice) = 8 THEN [ok |-> TRUE, val |-> slice]
                                     ELSE [ok |-> FALSE, val |-> <<>>]

\* bytes[lo..hi] of a Rust slice (0-based, hi exclusive).
Slice(bytes, lo, hi) == SubSeq(bytes, lo + 1, hi)

\* What a call that may panic leaves the caller with.
Returned(v) == [tag |-> "vec", val |-> v]

Panic == [tag |-> "panic", val |-> Vec3_ZERO]

\* .unwrap() panics on Err.
Unwrap3(sx, sy, sz) ==
  IF sx.ok /\ sy.ok /\ sz.ok
  THEN Returned([x |-> f64_from_le_bytes(sx.val),
                 y |-> f64_from_le_bytes(sy.val),
                 z |-> f64_from_le_bytes(sz.val)])
  ELSE Panic

\* Variant: z decoded from bytes[8..16], the slice y is decoded from.
Vec3_from_le_bytes_z_at_8(bytes) ==
  Unwrap3(TryInto8(Slice(bytes, 0, 8)),
          TryInto8(Slice(bytes, 8, 16)),
          TryInto8(Slice(bytes, 8, 16)))

\* Variant: z decoded from bytes[16..23], a slice of 7 bytes.
Vec3_from_le_bytes_short_z(bytes) ==
  Unwrap3(TryInto8(Slice(bytes, 0, 8)),
          TryInto8(Slice(bytes, 8, 16)),
          TryInto8(Slice(bytes, 16, 23)))

Vec3_from_le_bytes(bytes) ==
  Unwrap3(TryInto8(Slice(bytes, 0, 8)),
          TryInto8(Slice(bytes, 8, 16)),
          TryInto8(Slice(bytes, 16, 24)))

Vec3_scale(self, scalar) ==
  [x |-> F64Mul(self.x, scalar),
   y |-> F64Mul(self.y, scalar),
   z |-> F64Mul(self.z, scalar)]

Vec3_add(self, rhs) ==
  [x |-> F64Add(self.x, rhs.x),
   y |-> F64Add(self.y, rhs.y),
   z |-> F64Add(self.z, rhs.z)]

Vec3_neg(self) == [x |-> F64Neg(self.x), y |-> F64Neg(self.y), z |-> F64Neg(self.z)]

(***************************************************************************)
(* Neumaier: the compensated scalar accumulator of drift-kernel.           *)
(***************************************************************************)
Neumaier_new(initial) == [sum |-> initial, correction |-> F_0]

\* Variant: the correction takes the rounding difference only, without the
\* smaller operand added back.
Neumaier_step_no_term(self, value, t) ==
  IF F64Ge(F64Abs(self.sum), F64Abs(value))
  THEN [sum |-> t, correction |-> F64Add(self.correction, F64Sub(self.sum, t))]
  ELSE [sum |-> t, correction |-> F64Add(self.correction, F64Sub(value, t))]

\* The step with t = sum + value already computed.
Neumaier_step(self, value, t) ==
  IF F64Ge(F64Abs(self.sum), F64Abs(value))
  THEN [sum |-> t,
        correction |-> F64Add(self.correction, F64Add(F64Sub(self.sum, t), value))]
  ELSE [sum |-> t,
        correction |-> F64Add(self.correction, F64Add(F64Sub(value, t), self.sum))]

Neumaier_add(self, value) == Neumaier_step(self, value, F64Add(self.sum, value))

Neumaier_total(self) == F64Add(self.sum, self.correction)

Neumaier_reset(self) == [sum |-> F_0, correction |-> F_0]

(***************************************************************************)
(* Vec3Accumulator.  Each method is the function from self (and the        *)
(* arguments) to self after the call; resolve also returns a Vec3.         *)
(***************************************************************************)
Vec3Accumulator_default ==
  [x |-> Neumaier_new(F_0), y |-> Neumaier_new(F_0), z |-> Neumaier_new(F_0)]

Vec3Accumulator_new == Vec3Accumulator_default

Vec3Accumulator_with_initial(initial) ==
  [x |-> Neumaier_new(initial.x),
   y |-> Neumaier_new(initial.y),
   z |-> Neumaier_new(initial.z)]

\* Variant: the y axis is fed vec.z.
Vec3Accumulator_add_y_gets_z(self, vec) ==
  [x |-> Neumaier_add(self.x, vec.x),
   y |-> Neumaier_add(self.y, vec.z),
   z |-> Neumaier_add(self.z, vec.z)]

\* Variant: the z axis is summed naively, total + vec.z with no correction.
Vec3Accumulator_add_naive_z(self, vec) ==
  [x |-> Neumaier_add(self.x, vec.x),
   y |-> Neumaier_add(self.y, vec.y),
   z |-> Neumaier_new(F64Add(Neumaier_total(self.z), vec.z))]

\* Variant: the z axis is not fed at all.
Vec3Accumulator_add_no_z(self, vec) ==
  [x |-> Neumaier_add(self.x, vec.x),
   y |-> Neumaier_add(self.y, vec.y),
   z |-> self.z]

Vec3Accumulator_add(self, vec) ==
  [x |-> Neumaier_add(self.x, vec.x),
   y |-> Neumaier_add(self.y, vec.y),
   z |-> Neumaier_add(self.z, vec.z)]

\* Variant: the y component is added unscaled.
Vec3Accumulator_add_scaled_raw_y(self, vec, scalar) ==
  [x |-> Neumaier_add(self.x, F64Mul(vec.x, scalar)),
   y |-> Neumaier_add(self.y, vec.y),
   z |-> Neumaier_add(self.z, F64Mul(vec.z, scalar))]

Vec3Accumulator_add_scaled(self, vec, scalar) ==
  [x |-> Neumaier_add(self.x, F64Mul(vec.x, scalar)),
   y |-> Neumaier_add(self.y, F64Mul(vec.y, scalar)),
   z |-> Neumaier_add(self.z, F64Mul(vec.z, scalar))]

\* Variant: resolving folds each axis's correction into its sum.
Vec3Accumulator_resolve_folding(self) ==
  [self |-> [x |-> Neumaier_new(Neumaier_total(self.x)),
             y |-> Neumaier_new(Neumaier_total(self.y)),
             z |-> Neumaier_new(Neumaier_total(self.z))],
   ret  |-> [x |-> Neumaier_total(self.x),
             y |-> Neumaier_total(self.y),
             z |-> Neumaier_total(self.z)]]

Vec3Accumulator_resolve(self) ==
  [self |-> self,
   ret  |-> [x |-> Neumaier_total(self.x),
             y |-> Neumaier_total(self.y),
             z |-> Neumaier_total(self.z)]]

\* Variant: the z axis is not reset.
Vec3Accumulator_reset_xy(self) ==
  [x |-> Neumaier_reset(self.x),
   y |-> Neumaier_reset(self.y),
   z |-> self.z]

Vec3Accumulator_reset(self) ==
  [x |-> Neumaier_reset(self.x),
   y |-> Neumaier_reset(self.y),
   z |-> Neumaier_reset(self.z)]

(***************************************************************************)
(* Bounds and input sets.                                                  *)
(***************************************************************************)
MaxCodecOps == 2

MaxOps == 3

MaxCancelOps == 4

MaxRounds == 24

\* Components a caller builds a Vec3 from before encoding it.
CodecVals == {F_1_5, F_neg2_25, F_3_125, F_neg0, F_subnormal, F_1e16, Inf(0)}

\* 8-byte patterns a received buffer is made of: quiet NaN, a negative NaN
\* with payload 1, all ones, +infinity, -0.0, the smallest subnormal, 1e16.
BytePatterns ==
  { <<0, 0, 0, 0, 0, 0, 248, 127>>,
    <<1, 0, 0, 0, 0, 0, 240, 255>>,
    <<255, 255, 255, 255, 255, 255, 255, 255>>,
    <<0, 0, 0, 0, 0, 0, 240, 127>>,
    <<0, 0, 0, 0, 0, 0, 0, 128>>,
    <<1, 0, 0, 0, 0, 0, 0, 0>>,
    <<0, 128, 224, 55, 121, 195, 65, 67>> }

\* Vectors fed to the accumulator: large and small magnitudes mixed, inexact
\* decimals, an infinity.
VecSet ==
  { Vec3_new(F_1e16, F_1, F_0_1),
    Vec3_new(F_1, F64Neg(F_1e16), F_3),
    Vec3_new(F64Neg(F_1e16), Inf(0), F64Neg(F_1)) }

ScalarSet == {F_1_60, F_half}

Big3 == Vec3_new(F_1e16, F_1e16, F_1e16)

One3 == Vec3_new(F_1, F_1, F_1)

CancelVecs == {Big3, One3, Vec3_neg(Big3)}

\* Loop indices of the long-horizon test sampled beside the round number.
SampleIdx == {6251, 50000, 99999}

DocVec == Vec3_new(F_1e15, F_1em15, F_1)

NoVec == [tag |-> "none", val |-> Vec3_ZERO]

VARIABLES
  vec,       \* codec: the Vec3 at hand (NoVec, Returned(v) or Panic)
  buf,       \* codec: the byte buffer at hand (<<>> when none)
  origin,    \* codec: what the run started from
  trail,     \* codec: the conversions applied since
  acc,       \* the Vec3Accumulator
  last,      \* the last call on acc: its name, arguments and acc before it
  outs,      \* what the resolve() calls since the last mutating call returned
  ref,       \* one scalar Neumaier per axis, fed that axis's components only
  twin,      \* per axis, an accumulator fed the same calls with the other two
             \* components exchanged
  fresh,     \* an accumulator constructed by new() at the last reset()
  dropped,   \* the accumulator state the last reset() discarded
  wasReset,  \* whether reset() was ever called
  steps,     \* calls made so far
  naive,     \* the plain Vec3 running sum of the vectors added
  hist,      \* the vectors added, in order
  phase      \* long-horizon loop: "add" or "sub"

vars == <<vec, buf, origin, trail, acc, last, outs, ref, twin, fresh, dropped,
          wasReset, steps, naive, hist, phase>>

codecVars == <<vec, buf, origin, trail>>

accVars == <<acc, last, outs, ref, twin, fresh, dropped, wasReset, steps>>

ghostVars == <<ref, twin, fresh, dropped, wasReset>>

sideVars == <<naive, hist, phase>>

Call(op, v, s, pre) == [op |-> op, vec |-> v, scalar |-> s, pre |-> pre]

\* v with the component on axis ax kept and the other two exchanged.
Others(v, ax) ==
  IF ax = "x" THEN Vec3_new(v.x, v.z, v.y)
  ELSE IF ax = "y" THEN Vec3_new(v.z, v.y, v.x)
  ELSE Vec3_new(v.y, v.x, v.z)

CodecIdle ==
  /\ vec = NoVec /\ buf = <<>> /\ trail = <<>>
  /\ origin = [kind |-> "none", vec |-> NoVec, buf |-> <<>>]

AccStart(a, name, v) ==
  /\ acc = a
  /\ last = Call(name, v, F_0, a)
  /\ outs = <<>>
  /\ ref = [x |-> Neumaier_new(v.x), y |-> Neumaier_new(v.y), z |-> Neumaier_new(v.z)]
  /\ twin = [x |-> Vec3Accumulator_with_initial(Others(v, "x")),
             y |-> Vec3Accumulator_with_initial(Others(v, "y")),
             z |-> Vec3Accumulator_with_initial(Others(v, "z"))]
  /\ fresh = Vec3Accumulator_new
  /\ dropped = Vec3Accumulator_new
  /\ wasReset = FALSE
  /\ steps = 0

SideIdle == naive = Vec3_ZERO /\ hist = <<>> /\ phase = "add"

(***************************************************************************)
(* Codec: a caller builds a Vec3 or receives a 24-byte buffer, then        *)
(* converts back and forth.                                                *)
(***************************************************************************)
CodecNew ==
  /\ origin.kind = "none"
  /\ \E x \in CodecVals, y \in CodecVals, z \in CodecVals :
       /\ vec' = Returned(Vec3_new(x, y, z))
       /\ origin' = [kind |-> "vec", vec |-> Returned(Vec3_new(x, y, z)), buf |-> <<>>]
  /\ UNCHANGED <<buf, trail, accVars, sideVars>>

CodecReceive ==
  /\ origin.kind = "none"
  /\ \E bx \in BytePatterns, by \in BytePatterns, bz \in BytePatterns :
       /\ buf' = bx \o by \o bz
       /\ origin' = [kind |-> "buf", vec |-> NoVec, buf |-> bx \o by \o bz]
  /\ UNCHANGED <<vec, trail, accVars, sideVars>>

ToLeBytes ==
  /\ vec.tag = "vec"
  /\ Len(trail) < MaxCodecOps
  /\ buf' = Vec3_to_le_bytes(vec.val)
  /\ trail' = Append(trail, "to_le_bytes")
  /\ UNCHANGED <<vec, origin, accVars, sideVars>>

FromLeBytes ==
  /\ Len(buf) = 24
  /\ vec.tag # "panic"
  /\ Len(trail) < MaxCodecOps
  /\ vec' = Vec3_from_le_bytes(buf)
  /\ trail' = Append(trail, "from_le_bytes")
  /\ UNCHANGED <<buf, origin, accVars, sideVars>>

CodecInit == CodecIdle /\ AccStart(Vec3Accumulator_new, "new", Vec3_ZERO) /\ SideIdle

CodecNext == CodecNew \/ CodecReceive \/ ToLeBytes \/ FromLeBytes

SpecCodec == CodecInit /\ [][CodecNext]_vars

(***************************************************************************)
(* Accumulator: new() or with_initial(v), then any calls of add,           *)
(* add_scaled, resolve and reset.                                          *)
(***************************************************************************)
Add ==
  /\ steps < MaxOps
  /\ \E v \in VecSet :
       /\ acc' = Vec3Accumulator_add(acc, v)
       /\ last' = Call("add", v, F_0, acc)
       /\ ref' = [x |-> Neumaier_add(ref.x, v.x),
                  y |-> Neumaier_add(ref.y, v.y),
                  z |-> Neumaier_add(ref.z, v.z)]
       /\ twin' = [x |-> Vec3Accumulator_add(twin.x, Others(v, "x")),
                   y |-> Vec3Accumulator_add(twin.y, Others(v, "y")),
                   z |-> Vec3Accumulator_add(twin.z, Others(v, "z"))]
       /\ fresh' = IF wasReset THEN Vec3Accumulator_add(fresh, v) ELSE fresh
  /\ outs' = <<>>
  /\ steps' = steps + 1
  /\ UNCHANGED <<dropped, wasReset, codecVars, sideVars>>

AddScaled ==
  /\ steps < MaxOps
  /\ \E v \in VecSet, s \in ScalarSet :
       /\ acc' = Vec3Accumulator_add_scaled(acc, v, s)
       /\ last' = Call("add_scaled", v, s, acc)
       /\ ref' = [x |-> Neumaier_add(ref.x, F64Mul(v.x, s)),
                  y |-> Neumaier_add(ref.y, F64Mul(v.y, s)),
                  z |-> Neumaier_add(ref.z, F64Mul(v.z, s))]
       /\ twin' = [x |-> Vec3Accumulator_add_scaled(twin.x, Others(v, "x"), s),
                   y |-> Vec3Accumulator_add_scaled(twin.y, Others(v, "y"), s),
                   z |-> Vec3Accumulator_add_scaled(twin.z, Others(v, "z"), s)]
       /\ fresh' = IF wasReset THEN Vec3Accumulator_add_scaled(fresh, v, s) ELSE fresh
  /\ outs' = <<>>
  /\ steps' = steps + 1
  /\ UNCHANGED <<dropped, wasReset, codecVars, sideVars>>

Resolve ==
  /\ steps < MaxOps
  /\ acc' = Vec3Accumulator_resolve(acc).self
  /\ outs' = Append(outs, Vec3Accumulator_resolve(acc).ret)
  /\ last' = Call("resolve", Vec3_ZERO, F_0, acc)
  /\ steps' = steps + 1
  /\ UNCHANGED <<ghostVars, codecVars, sideVars>>

Reset ==
  /\ steps < MaxOps
  /\ acc' = Vec3Accumulator_reset(acc)
  /\ last' = Call("reset", Vec3_ZERO, F_0, acc)
  /\ ref' = [x |-> Neumaier_reset(ref.x),
             y |-> Neumaier_reset(ref.y),
             z |-> Neumaier_reset(ref.z)]
  /\ twin' = [x |-> Vec3Accumulator_reset(twin.x),
              y |-> Vec3Accumulator_reset(twin.y),
              z |-> Vec3Accumulator_reset(twin.z)]
  /\ fresh' = Vec3Accumulator_new
  /\ dropped' = acc
  /\ wasReset' = TRUE
  /\ outs' = <<>>
  /\ steps' = steps + 1
  /\ UNCHANGED <<codecVars, sideVars>>

AccInit ==
  /\ CodecIdle /\ SideIdle
  /\ \/ AccStart(Vec3Accumulator_new, "new", Vec3_ZERO)
     \/ \E v \in VecSet : AccStart(Vec3Accumulator_with_initial(v), "with_initial", v)

AccNext == Add \/ AddScaled \/ Resolve \/ Reset

Spec == AccInit /\ [][AccNext]_vars

(***************************************************************************)
(* Catastrophic cancellation: from new(), the vectors of CancelVecs added  *)
(* in any order, beside the naive Vec3 running sum, then resolved.         *)
(***************************************************************************)
CancelAdd ==
  /\ Len(hist) < MaxCancelOps
  /\ \E v \in CancelVecs :
       /\ acc' = Vec3Accumulator_add(acc, v)
       /\ last' = Call("add", v, F_0, acc)
       /\ naive' = Vec3_add(naive, v)
       /\ hist' = Append(hist, v)
  /\ outs' = <<>>
  /\ steps' = steps + 1
  /\ UNCHANGED <<ghostVars, codecVars, phase>>

CancelResolve ==
  /\ outs = <<>>
  /\ acc' = Vec3Accumulator_resolve(acc).self
  /\ outs' = <<Vec3Accumulator_resolve(acc).ret>>
  /\ last' = Call("resolve", Vec3_ZERO, F_0, acc)
  /\ UNCHANGED <<steps, ghostVars, codecVars, sideVars>>

CancelInit == CodecInit

CancelNext == CancelAdd \/ CancelResolve

SpecCancel == CancelInit /\ [][CancelNext]_vars

(***************************************************************************)
(* Long horizon: rounds of add(v), add(-v).  v is (large, large, large)    *)
(* with large = 1e15 + (i as f64) * 1e-5 for the round's own index or a    *)
(* sampled later one, or the vector of the documentation example.          *)
(***************************************************************************)
Large(i) == F64Add(F_1e15, F64Mul(F64FromInt(i), F_1em5))

HorizonAdd ==
  /\ phase = "add"
  /\ steps < MaxRounds
  /\ \E v \in {Vec3_new(Large(i), Large(i), Large(i)) : i \in SampleIdx \cup {steps}}
              \cup {DocVec} :
       /\ acc' = Vec3Accumulator_add(acc, v)
       /\ last' = Call("add", v, F_0, acc)
       /\ hist' = <<v>>
  /\ phase' = "sub"
  /\ outs' = <<>>
  /\ UNCHANGED <<steps, naive, ghostVars, codecVars>>

HorizonSub ==
  /\ phase = "sub"
  /\ acc' = Vec3Accumulator_add(acc, Vec3_new(F64Neg(hist[1].x), F64Neg(hist[1].y),
                                                F64Neg(hist[1].z)))
  /\ last' = Call("add", Vec3_neg(hist[1]), F_0, acc)
  /\ phase' = "add"
  /\ steps' = steps + 1
  /\ outs' = <<>>
  /\ UNCHANGED <<hist, naive, ghostVars, codecVars>>

HorizonResolve ==
  /\ phase = "add"
  /\ outs = <<>>
  /\ acc' = Vec3Accumulator_resolve(acc).self
  /\ outs' = <<Vec3Accumulator_resolve(acc).ret>>
  /\ last' = Call("resolve", Vec3_ZERO, F_0, acc)
  /\ UNCHANGED <<steps, ghostVars, codecVars, sideVars>>

HorizonInit == CodecInit

HorizonNext == HorizonAdd \/ HorizonSub \/ HorizonResolve

SpecHorizon == HorizonInit /\ [][HorizonNext]_vars

(***************************************************************************)
(* Properties of the codec.                                                *)
(***************************************************************************)
LastOp == IF trail = <<>> THEN "none" ELSE trail[Len(trail)]

FiniteVec(v) == IsFinite(v.x) /\ IsFinite(v.y) /\ IsFinite(v.z)

Component(v, i) == IF i = 0 THEN v.x ELSE IF i = 1 THEN v.y ELSE v.z

\* Byte k (0 = least significant) of the 64-bit pattern x.to_bits().
BitByte(x, k) == (ToBits(x)[(k \div 2) + 1] \div (256 ^ (k % 2))) % 256

\* C1: a Vec3 built from finite components, encoded by to_le_bytes and then
\* decoded by from_le_bytes, is bit for bit the Vec3 that was encoded.
C1_RoundTrip ==
  (origin.kind = "vec" /\ FiniteVec(origin.vec.val) /\ LastOp = "from_le_bytes")
    => vec = origin.vec

\* A round trip of (-0.0, smallest subnormal, -2.25) has been made.
C1_Witness ==
  /\ origin.kind = "vec"
  /\ origin.vec.val = Vec3_new(F_neg0, F_subnormal, F_neg2_25)
  /\ trail = <<"to_le_bytes", "from_le_bytes">>
  /\ vec.tag = "vec"

\* C2: to_le_bytes yields 24 bytes holding the little-endian IEEE-754 bytes
\* of x at offsets 0..8, of y at 8..16 and of z at 16..24; from_le_bytes
\* reads the three components from the same offsets.
C2_Layout ==
  /\ LastOp = "to_le_bytes" =>
       /\ Len(buf) = 24
       /\ \A i \in 0..2 : \A k \in 0..7 :
            buf[(8 * i) + k + 1] = BitByte(Component(vec.val, i), k)
  /\ (LastOp = "from_le_bytes" /\ vec.tag = "vec") =>
       \A i \in 0..2 : \A k \in 0..7 :
         BitByte(Component(vec.val, i), k) = buf[(8 * i) + k + 1]

\* (1.5, -2.25, 3.125) has been encoded: the three segments differ.
C2_Witness ==
  /\ LastOp = "to_le_bytes"
  /\ vec = Returned(Vec3_new(F_1_5, F_neg2_25, F_3_125))
  /\ Slice(buf, 0, 8) = <<0, 0, 0, 0, 0, 0, 248, 63>>
  /\ Slice(buf, 8, 16) = <<0, 0, 0, 0, 0, 0, 2, 192>>
  /\ Slice(buf, 16, 24) = <<0, 0, 0, 0, 0, 0, 9, 64>>

\* C10: from_le_bytes decodes every 24-byte buffer without panicking, NaN,
\* infinity, -0.0 and subnormal patterns included, and to_le_bytes of the
\* result is the buffer again, byte for byte.
C10_AnyBuffer ==
  origin.kind = "buf" =>
    /\ vec.tag # "panic"
    /\ LastOp = "from_le_bytes" => vec.tag = "vec"
    /\ LastOp = "to_le_bytes" => buf = origin.buf

\* A buffer of a NaN with a payload, the all-ones NaN and a subnormal has been
\* decoded and encoded again.
C10_Witness ==
  /\ origin.kind = "buf"
  /\ origin.buf = <<1, 0, 0, 0, 0, 0, 240, 255>>
                    \o <<255, 255, 255, 255, 255, 255, 255, 255>>
                    \o <<1, 0, 0, 0, 0, 0, 0, 0>>
  /\ trail = <<"from_le_bytes", "to_le_bytes">>
  /\ IsNaN(vec.val.x) /\ IsNaN(vec.val.y)
  /\ buf = origin.buf

(***************************************************************************)
(* Properties of the accumulator.                                          *)
(***************************************************************************)
Mutating == {"add", "add_scaled"}

\* C3: reset() leaves the accumulator resolving to the zero vector, and from
\* then on it is, call after call, the accumulator new() would have been.
C3_ResetIsNew ==
  /\ last.op = "reset" =>
       /\ Vec3Accumulator_resolve(acc).ret = Vec3_ZERO
       /\ acc = Vec3Accumulator_new
  /\ wasReset =>
       /\ acc = fresh
       /\ Vec3Accumulator_resolve(acc).ret = Vec3Accumulator_resolve(fresh).ret

\* reset() discarded an accumulator with a correction term, and a vector has
\* been added since.
C3_Witness ==
  /\ wasReset
  /\ dropped.x.correction # F_0
  /\ last.op \in Mutating
  /\ acc # Vec3Accumulator_new

\* C4: each axis is the scalar Neumaier accumulator fed that axis's
\* components only; the components fed to the other two axes do not matter.
C4_AxesIndependent ==
  \A ax \in Axes :
    /\ acc[ax] = ref[ax]
    /\ acc[ax] = twin[ax][ax]
    /\ Vec3Accumulator_resolve(acc).ret[ax] = Neumaier_total(ref[ax])

\* After two additions the x axis holds a correction, while the accumulator
\* fed the other components exchanged differs on y and z.
C4_Witness ==
  /\ steps >= 2
  /\ last.op \in Mutating
  /\ acc.x.correction # F_0
  /\ twin.x.y # acc.y
  /\ twin.x.z # acc.z

\* C5: add_scaled(v, s) leaves the accumulator as add(v.scale(s)) would.
C5_AddScaledIsAddOfScale ==
  last.op = "add_scaled" =>
    acc = Vec3Accumulator_add(last.pre, Vec3_scale(last.vec, last.scalar))

\* add_scaled ran with an inexact product (1e16 / 60) on an accumulator that
\* already held a value, and left a correction.
C5_Witness ==
  /\ last.op = "add_scaled"
  /\ last.scalar = F_1_60
  /\ last.vec.x = F_1e16
  /\ last.pre.x.sum # F_0
  /\ acc.x.correction # F_0

\* C6: resolve() leaves the accumulator as it was, and resolve() calls with
\* no add, add_scaled or reset between them return the same vector.
C6_ResolveReadOnly ==
  last.op = "resolve" =>
    /\ acc = last.pre
    /\ \A i \in 1..Len(outs) : outs[i] = outs[1]
    /\ outs[Len(outs)] = Vec3Accumulator_resolve(acc).ret

\* resolve() ran twice in a row on an accumulator holding a correction.
C6_Witness ==
  /\ last.op = "resolve"
  /\ Len(outs) >= 2
  /\ acc.x.correction # F_0
  /\ outs[2] # Vec3_ZERO

\* The Neumaier step on one axis, written out: t = sum + value; the
\* correction gains (sum - t) + value when |sum| >= |value|, else
\* (value - t) + sum; sum becomes t.
C7_Step(n, value, t) ==
  [sum |-> t,
   correction |->
     IF F64Ge(F64Abs(n.sum), F64Abs(value))
     THEN F64Add(n.correction, F64Add(F64Sub(n.sum, t), value))
     ELSE F64Add(n.correction, F64Add(F64Sub(value, t), n.sum))]

\* C7: add(v) applies exactly that step on each axis with value the axis's
\* component of v, and resolve() returns sum + correction on each axis.
C7_NeumaierStep ==
  /\ last.op = "add" =>
       \A ax \in Axes :
         acc[ax] = C7_Step(last.pre[ax], last.vec[ax],
                           F64Add(last.pre[ax].sum, last.vec[ax]))
  /\ last.op = "resolve" =>
       \A ax \in Axes :
         outs[Len(outs)][ax] = F64Add(last.pre[ax].sum, last.pre[ax].correction)

\* add(v) took the second branch on x (|sum| < |value|) and the first on y,
\* and both left a correction.
C7_Witness ==
  /\ last.op = "add"
  /\ F64Lt(F64Abs(last.pre.x.sum), F64Abs(last.vec.x))
  /\ F64Ge(F64Abs(last.pre.y.sum), F64Abs(last.vec.y))
  /\ acc.x.correction = F_1
  /\ acc.y.correction # F_0

(***************************************************************************)
(* Properties of the two numerical scenarios.                              *)
(***************************************************************************)
Within(a, b, eps) ==
  \A ax \in Axes : F64Lt(F64Abs(F64Sub(a[ax], b[ax])), eps)

\* C8: after 1e16, 1.0 and -1e16 are added on every axis, resolve() is within
\* 1e-10 of (1, 1, 1): the 1.0 lost from sum is kept in correction, while the
\* naive Vec3 sum of the same vectors is zero.
C8_Cancellation ==
  /\ hist = <<Big3, One3>> =>
       \A ax \in Axes : acc[ax].sum = F_1e16 /\ acc[ax].correction = F_1
  /\ (hist = <<Big3, One3, Vec3_neg(Big3)>> /\ outs # <<>>) =>
       /\ Within(outs[1], One3, F_1em10)
       /\ naive = Vec3_ZERO

\* The three vectors were added in that order and the sum was resolved.
C8_Witness ==
  /\ hist = <<Big3, One3, Vec3_neg(Big3)>>
  /\ outs = <<One3>>
  /\ naive # One3

\* C9: after any number of rounds of add(v), add(-v) with v of magnitude
\* 1e15 or more, resolve() is within 1e-10 of zero on every axis.
C9_LongHorizon ==
  (phase = "add" /\ outs # <<>>) => Within(outs[1], Vec3_ZERO, F_1em10)

\* MaxRounds rounds were made, the last with large = 1e15 + 99999 * 1e-5, and
\* the sum was resolved.
C9_Witness ==
  /\ steps = MaxRounds
  /\ phase = "add"
  /\ hist = <<Vec3_new(Large(99999), Large(99999), Large(99999))>>
  /\ Large(99999) # F_1e15
  /\ outs # <<>>

====
